---- MODULE Spec2Model ----
(***************************************************************************)
(* Message threading and draft/publish lifecycle of the forum:              *)
(* the message routes of the server (routes/messages.ts, the message        *)
(* routes of routes/channels.ts), the Message schema, the rich-text         *)
(* sanitizer and the Channel page of the client.                            *)
(***************************************************************************)
EXTENDS Integers, Sequences, FiniteSets, TLC

\* ------------------------------------------------------------------ bounds
\* number of message ids the store ever hands out
MaxMsgs == 3
\* last instant of the server clock; every store write takes a fresh instant
MaxTime == 4

\* ------------------------------------------------------- identities, ids
Users == {1, 2}
\* req.user is undefined: no bearer token, or optionalAuth failed
NoUser == 0
\* the channels that exist (Channel.exists / Channel.findById succeed)
Channels == {1, 2}
\* a well-formed channel id that names no channel
GhostChannel == 3
\* parentMessage: default null
NoParent == 0
\* useState<string | null>(null): no message id
Null == 0
\* a string that mongoose.Types.ObjectId.isValid refuses
BadId == -1
MsgIds == 1..MaxMsgs

\* --------------------------------------------------------- rich text
\* Rich text is a sequence of tokens: visible characters, white space, the
\* entity &nbsp;, tags of the allow list and tags outside it.
TextTokens == {"a", "b"}
SpaceTokens == {"_"}
EntityTokens == {"&nbsp;"}
allowedTags == {"<p>", "</p>"}
DroppedTags == {"<img>"}
TagTokens == allowedTags \cup DroppedTags

RECURSIVE TrimLeft(_)
TrimLeft(s) ==
    IF s # <<>> /\ Head(s) \in SpaceTokens THEN TrimLeft(Tail(s)) ELSE s

RECURSIVE TrimRight(_)
TrimRight(s) ==
    IF s # <<>> /\ s[Len(s)] \in SpaceTokens
    THEN TrimRight(SubSeq(s, 1, Len(s) - 1))
    ELSE s

\* String.prototype.trim
Trim(s) == TrimRight(TrimLeft(s))

IsKeptToken(t) == t \notin DroppedTags

\* An ampersand is text: "&" as typed, "&amp;" as the entity, "&amp;amp;" as
\* the entity of the entity.
\* fault injection: the parser hands the entities on as they are written
decodeEntity_Off(t) == t

\* htmlparser2 with decodeEntities (the default of sanitize-html)
decodeEntity(t) ==
    CASE t = "&amp;" -> "&"
      [] t = "&amp;amp;" -> "&amp;"
      [] OTHER -> t

\* escapeHtml of sanitize-html, on the text it writes out
escapeHtml(t) ==
    CASE t = "&" -> "&amp;"
      [] t = "&amp;" -> "&amp;amp;"
      [] OTHER -> t

\* sanitizeHtmlLib(dirty, options): tags outside the allow list are
\* discarded, text is decoded and written out escaped
sanitizeHtmlLib(dirty) ==
    LET kept == SelectSeq(dirty, IsKeptToken)
    IN  [k \in DOMAIN kept |-> escapeHtml(decodeEntity(kept[k]))]

\* sanitize-html with the allow list, then trim
sanitizeRichText(dirty) == Trim(sanitizeHtmlLib(dirty))

IsNotTag(t) == t \notin TagTokens
IsNotNbsp(t) == t \notin EntityTokens

isRichTextEmpty(html) ==
    LET sanitized == sanitizeRichText(html)
        textOnly == Trim(SelectSeq(SelectSeq(sanitized, IsNotTag), IsNotNbsp))
    IN  Len(textOnly) = 0


\* ------------------------------------------------------------ the store
\* One Message document (models/Message.ts).  v is the version key __v.
NewMessage(nid, t, channel, parent, user, content, draft) ==
    [ id |-> nid, channel |-> channel, parentMessage |-> parent,
      authorId |-> user, content |-> content, isDraft |-> draft,
      isOrphaned |-> FALSE, createdAt |-> t, updatedAt |-> t, v |-> 0 ]

\* Message.create: the collection with the new document in it
Insert(st, m) ==
    [i \in DOMAIN st \cup {m.id} |-> IF i = m.id THEN m ELSE st[i]]

\* Message.findById(id) finds a document
Found(st, id) == id \in DOMAIN st

\* timestamps option: createdAt is an immutable path, so an assignment to it
\* on a document that is already persisted keeps the stored value
SetCreatedAt(message, t) == message.createdAt

\* timestamps option: a write that changes a document stamps updatedAt
Touch(message, modified, t) ==
    IF modified THEN [message EXCEPT !.updatedAt = t] ELSE message

\* fault injection: the delete cascades to the replies
deleteOne_WithReplies(st, id) ==
    [i \in { j \in DOMAIN st : j # id /\ st[j].parentMessage # id } |-> st[i]]

\* Message.deleteOne({ _id })
deleteOne(st, id) == [i \in DOMAIN st \ {id} |-> st[i]]

\* fault injection: the filter is lost and every reply is marked
updateMany_EveryReply(st, id, t) ==
    [i \in DOMAIN st |->
        IF st[i].parentMessage # NoParent
        THEN [st[i] EXCEPT !.isOrphaned = TRUE, !.updatedAt = t]
        ELSE st[i]]

\* fault injection: the replies are detached from the deleted parent
updateMany_Detach(st, id, t) ==
    [i \in DOMAIN st |->
        IF st[i].parentMessage = id
        THEN [st[i] EXCEPT !.isOrphaned = TRUE, !.parentMessage = NoParent,
                           !.updatedAt = t]
        ELSE st[i]]

\* Message.updateMany({ parentMessage: id }, { isOrphaned: true })
updateMany(st, id, t) ==
    [i \in DOMAIN st |->
        IF st[i].parentMessage = id
        THEN Touch([st[i] EXCEPT !.isOrphaned = TRUE], TRUE, t)
        ELSE st[i]]

\* ------------------------------------------------------------- requests
Opt == {"undef", "true", "false"}

Request(op, user, channel, id, hasContent, content, publish, isDraft, includeDrafts) ==
    [ op |-> op, user |-> user, channel |-> channel, id |-> id,
      hasContent |-> hasContent, content |-> content, publish |-> publish,
      isDraft |-> isDraft, includeDrafts |-> includeDrafts ]

Reply(status, st, body) == [status |-> status, store |-> st, body |-> body]

\* ------------------------------------------------- routes/messages.ts
\* fault injection: the version is bumped twice
bumpDocumentVersion_Twice(message) == [message EXCEPT !.v = message.v + 2]

bumpDocumentVersion(message) == [message EXCEPT !.v = message.v + 1]

\* fault injection: the channel of the parent is not compared
postMessage_AnyChannel(st, nid, t, r) ==
    IF r.user = NoUser THEN Reply(401, st, <<>>)
    ELSE IF r.channel = BadId THEN Reply(400, st, <<>>)
    ELSE IF isRichTextEmpty(r.content) THEN Reply(400, st, <<>>)
    ELSE IF r.channel \notin Channels THEN Reply(404, st, <<>>)
    ELSE IF r.id = BadId THEN Reply(400, st, <<>>)
    ELSE IF r.id # NoParent /\ ~Found(st, r.id) THEN Reply(404, st, <<>>)
    ELSE IF r.id # NoParent /\ st[r.id].isOrphaned THEN Reply(400, st, <<>>)
    ELSE LET m == NewMessage(nid, t, r.channel, r.id, r.user,
                             sanitizeRichText(r.content), r.isDraft = "true")
         IN  Reply(201, Insert(st, m), <<m>>)

\* POST /messages; r.id is parentMessageId (NoParent: null or absent)
postMessage(st, nid, t, r) ==
    IF r.user = NoUser THEN Reply(401, st, <<>>)
    ELSE IF r.channel = BadId THEN Reply(400, st, <<>>)
    ELSE IF isRichTextEmpty(r.content) THEN Reply(400, st, <<>>)
    ELSE IF r.channel \notin Channels THEN Reply(404, st, <<>>)
    ELSE IF r.id = BadId THEN Reply(400, st, <<>>)
    ELSE IF r.id # NoParent /\ ~Found(st, r.id) THEN Reply(404, st, <<>>)
    ELSE IF r.id # NoParent /\ st[r.id].channel # r.channel THEN Reply(400, st, <<>>)
    ELSE IF r.id # NoParent /\ st[r.id].isOrphaned THEN Reply(400, st, <<>>)
    ELSE LET m == NewMessage(nid, t, r.channel, r.id, r.user,
                             sanitizeRichText(r.content), r.isDraft = "true")
         IN  Reply(201, Insert(st, m), <<m>>)

\* fault injection: wasDraftBeforeUpdate is not looked at
shouldIncrementVersion_AnyContent(message, r) == r.hasContent

\* what PATCH decides from the stored message and the body
shouldIncrementVersion(message, r) == ~message.isDraft /\ r.hasContent

\* fault injection: publish on a published document is taken for an edit
shouldPublish_DraftsOnly(message, r) ==
    message.isDraft /\ (r.publish = "true" \/ r.isDraft = "false")

shouldPublish(message, r) ==
    r.publish = "true" \/ (r.isDraft = "false" /\ message.isDraft)

\* fault injection: the parent's isOrphaned is not looked at
parentUnavailable_MissingOnly(st, message) ==
    /\ message.parentMessage # NoParent
    /\ ~Found(st, message.parentMessage)

\* the parent lookup of a publish: the parent is gone or is orphaned itself
parentUnavailable(st, message) ==
    /\ message.parentMessage # NoParent
    /\ \/ ~Found(st, message.parentMessage)
       \/ st[message.parentMessage].isOrphaned

\* fault injection: the caller is not compared with authorId
isAuthor_Anyone(message, r) == TRUE

\* message.authorId.toString() === String(req.user._id)
isAuthor(message, r) == message.authorId = r.user

\* fault injection: the body's isDraft is not compared with the document
revertsToDraft_Never(message, r) == FALSE

\* isDraft === true on a message that is published
revertsToDraft(message, r) == r.isDraft = "true" /\ ~message.isDraft

\* fault injection: the save writes a document rebuilt from the schema
\* defaults and the fields of the request's concern
patchedDocument_Rebuilt(message, t, r) ==
    [message EXCEPT !.content = IF r.hasContent THEN sanitizeRichText(r.content) ELSE @,
                    !.isDraft = IF shouldPublish(message, r) THEN FALSE ELSE @,
                    !.v = IF shouldIncrementVersion(message, r) THEN @ + 1 ELSE @,
                    !.isOrphaned = FALSE,
                    !.updatedAt = t]

\* the document PATCH saves once every check has passed
patchedDocument(message, t, r) ==
    LET content == IF r.hasContent THEN sanitizeRichText(r.content)
                   ELSE message.content
        edited == [message EXCEPT !.content = content]
        published ==
            IF shouldPublish(message, r)
            THEN [edited EXCEPT !.isDraft = FALSE,
                                !.createdAt = SetCreatedAt(message, t)]
            ELSE edited
        versioned ==
            IF shouldIncrementVersion(message, r)
            THEN bumpDocumentVersion(published)
            ELSE published
        modified ==
            \/ content # message.content
            \/ shouldPublish(message, r)
            \/ shouldIncrementVersion(message, r)
    IN  Touch(versioned, modified, t)

\* PATCH /messages/:id
patchMessage(st, t, r) ==
    IF r.user = NoUser THEN Reply(401, st, <<>>)
    ELSE IF r.id = BadId THEN Reply(400, st, <<>>)
    ELSE IF ~r.hasContent /\ r.publish = "undef" /\ r.isDraft = "undef"
         THEN Reply(400, st, <<>>)
    ELSE IF r.hasContent /\ isRichTextEmpty(r.content) THEN Reply(400, st, <<>>)
    ELSE IF ~Found(st, r.id) THEN Reply(404, st, <<>>)
    ELSE IF ~isAuthor(st[r.id], r) THEN Reply(403, st, <<>>)
    ELSE
      LET message == st[r.id]
          saved == patchedDocument(message, t, r)
      IN  IF revertsToDraft(message, r) THEN Reply(400, st, <<>>)
          ELSE IF shouldPublish(message, r) /\ ~message.isDraft
               THEN Reply(400, st, <<>>)
          ELSE IF shouldPublish(message, r) /\ message.isOrphaned
               THEN Reply(400, st, <<>>)
          ELSE IF shouldPublish(message, r) /\ parentUnavailable(st, message)
               THEN Reply(400, st, <<>>)
          ELSE Reply(200, [st EXCEPT ![r.id] = saved], <<saved>>)

\* fault injection: deleteOne and updateMany run without the lookup
deleteMessage_NoLookup(st, t, r) ==
    IF r.user = NoUser THEN Reply(401, st, <<>>)
    ELSE IF r.id = BadId THEN Reply(400, st, <<>>)
    ELSE IF Found(st, r.id) /\ ~isAuthor(st[r.id], r) THEN Reply(403, st, <<>>)
    ELSE Reply(200, updateMany(deleteOne(st, r.id), r.id, t), <<>>)

\* DELETE /messages/:id
deleteMessage(st, t, r) ==
    IF r.user = NoUser THEN Reply(401, st, <<>>)
    ELSE IF r.id = BadId THEN Reply(400, st, <<>>)
    ELSE IF ~Found(st, r.id) THEN Reply(404, st, <<>>)
    ELSE IF ~isAuthor(st[r.id], r) THEN Reply(403, st, <<>>)
    ELSE Reply(200, updateMany(deleteOne(st, r.id), r.id, t), <<>>)

\* .sort({ createdAt: 1 }); documents with equal createdAt in id order
RECURSIVE SortByCreatedAt(_)
SortByCreatedAt(ms) ==
    IF ms = {} THEN <<>>
    ELSE LET first == CHOOSE m \in ms : \A o \in ms :
                          \/ m.createdAt < o.createdAt
                          \/ m.createdAt = o.createdAt /\ m.id <= o.id
         IN  <<first>> \o SortByCreatedAt(ms \ {first})

\* Message.find(messagesQuery) of both list routes
messagesQuery(st, channels, viewer, withDrafts) ==
    { st[i] : i \in { j \in DOMAIN st :
        /\ st[j].channel \in channels
        /\ \/ ~st[j].isDraft
           \/ withDrafts /\ st[j].authorId = viewer } }

\* GET /messages; r.channel = NoParent when no channelId is given
listMessages(st, r) ==
    IF r.channel = BadId THEN Reply(400, st, <<>>)
    ELSE IF r.includeDrafts = "false" THEN Reply(400, st, <<>>)
    ELSE IF r.includeDrafts = "true" /\ r.user = NoUser THEN Reply(401, st, <<>>)
    ELSE LET channels == IF r.channel = NoParent THEN Channels \cup {GhostChannel}
                         ELSE {r.channel}
         IN  Reply(200, st, SortByCreatedAt(
                 messagesQuery(st, channels, r.user, r.includeDrafts = "true")))

\* GET /messages/:id
getMessage(st, r) ==
    IF r.id = BadId THEN Reply(400, st, <<>>)
    ELSE IF ~Found(st, r.id) THEN Reply(404, st, <<>>)
    ELSE Reply(200, st, <<st[r.id]>>)

\* ------------------------------------------------- routes/channels.ts
\* GET /channels/:id/messages
listChannelMessages(st, r) ==
    IF r.channel = BadId THEN Reply(400, st, <<>>)
    ELSE IF r.channel \notin Channels THEN Reply(404, st, <<>>)
    ELSE IF r.includeDrafts = "false" THEN Reply(400, st, <<>>)
    ELSE IF r.includeDrafts = "true" /\ r.user = NoUser THEN Reply(401, st, <<>>)
    ELSE Reply(200, st, SortByCreatedAt(
             messagesQuery(st, {r.channel}, r.user, r.includeDrafts = "true")))

\* POST /channels/:id/messages; r.id is parentMessageId
postChannelMessage(st, nid, t, r) ==
    IF r.user = NoUser THEN Reply(401, st, <<>>)
    ELSE IF r.channel = BadId THEN Reply(400, st, <<>>)
    ELSE IF Len(Trim(r.content)) = 0 THEN Reply(400, st, <<>>)
    ELSE IF r.channel \notin Channels THEN Reply(404, st, <<>>)
    ELSE IF r.id = BadId THEN Reply(400, st, <<>>)
    ELSE IF r.id # NoParent /\ ~Found(st, r.id) THEN Reply(404, st, <<>>)
    ELSE IF r.id # NoParent /\ st[r.id].channel # r.channel THEN Reply(400, st, <<>>)
    ELSE LET m == NewMessage(nid, t, r.channel, r.id, r.user,
                             Trim(r.content), r.isDraft = "true")
         IN  Reply(201, Insert(st, m), <<m>>)

\* the route table of the server (index.ts: /messages and /channels)
Handle(st, nid, t, r) ==
    CASE r.op = "post" -> postMessage(st, nid, t, r)
      [] r.op = "postChannel" -> postChannelMessage(st, nid, t, r)
      [] r.op = "patch" -> patchMessage(st, t, r)
      [] r.op = "delete" -> deleteMessage(st, t, r)
      [] r.op = "list" -> listMessages(st, r)
      [] r.op = "listChannel" -> listChannelMessages(st, r)
      [] r.op = "get" -> getMessage(st, r)

\* ------------------------------------------------- utils/sanitizeHtml.ts
\* tags and &nbsp; become blanks, runs of blanks collapse, then trim
RECURSIVE CollapseSpaces(_)
CollapseSpaces(s) ==
    IF Len(s) < 2 THEN s
    ELSE IF s[1] \in SpaceTokens /\ s[2] \in SpaceTokens
         THEN CollapseSpaces(Tail(s))
         ELSE <<s[1]>> \o CollapseSpaces(Tail(s))

extractPlainText(html) ==
    Trim(CollapseSpaces(
        [k \in DOMAIN html |->
            IF html[k] \in TagTokens \cup EntityTokens THEN "_" ELSE html[k]]))

\* the client's sanitizeRichText: markup without text becomes ''
clientSanitizeRichText(dirty) ==
    LET sanitized == Trim(sanitizeHtmlLib(dirty))
    IN  IF sanitized = <<>> THEN <<>>
        ELSE IF extractPlainText(sanitized) # <<>> THEN sanitized ELSE <<>>

clientIsRichTextEmpty(html) == clientSanitizeRichText(html) = <<>>

\* ------------------------------------------- the Channel page (client)
\* The state of one mounted Channel component, of a signed-in user.
NewPage(u) ==
    [ user |-> u, loading |-> TRUE, messages |-> <<>>,
      activeDraftId |-> Null, lastKnownDraftId |-> Null,
      replyParentId |-> Null, activeReplyDraftId |-> Null,
      editingMessageId |-> Null, editingMessageParentId |-> Null,
      isEditingDraft |-> FALSE ]

\* messages.find(isDraft && parentMessage === parent && authorId === user)?._id
findDraftId(ms, parent, u) ==
    LET hits == { k \in DOMAIN ms :
                    /\ ms[k].isDraft
                    /\ ms[k].parentMessage = parent
                    /\ ms[k].authorId = u }
    IN  IF hits = {} THEN Null
        ELSE ms[CHOOSE k \in hits : \A j \in hits : k <= j].id

\* messages.find(message => message._id === id), as a set of positions
positionsOf(ms, id) == { k \in DOMAIN ms : ms[k].id = id }

\* effect on [messages, authUserId]: the root composer adopts the draft
rootDraftEffect(pg) ==
    LET existingDraft == findDraftId(pg.messages, NoParent, pg.user)
    IN  IF existingDraft # Null
        THEN [pg EXCEPT !.lastKnownDraftId = existingDraft,
                        !.activeDraftId = existingDraft]
        ELSE IF pg.lastKnownDraftId # Null
        THEN [pg EXCEPT !.lastKnownDraftId = Null, !.activeDraftId = Null]
        ELSE pg

\* effect on [messages, replyParentId, authUserId]
replyDraftEffect(pg) ==
    IF pg.replyParentId = Null THEN [pg EXCEPT !.activeReplyDraftId = Null]
    ELSE [pg EXCEPT !.activeReplyDraftId =
             findDraftId(pg.messages, pg.replyParentId, pg.user)]

\* the effects that run after a render with new state
runEffects(pg) == replyDraftEffect(rootDraftEffect(pg))

\* fault injection: the saved message is appended, also when the list has it
upsertMessage_Append(ms, updatedMessage) == Append(ms, updatedMessage)

upsertMessage(ms, updatedMessage) ==
    IF positionsOf(ms, updatedMessage.id) # {}
    THEN [k \in DOMAIN ms |->
             IF ms[k].id = updatedMessage.id THEN updatedMessage ELSE ms[k]]
    ELSE Append(ms, updatedMessage)

isMessageAuthor(pg, message) == message.authorId = pg.user
isOwnDraft(pg, message) == message.isDraft /\ message.authorId = pg.user
canMessageReceiveReplies(message) == ~message.isDraft /\ ~message.isOrphaned

handleReplyCancel(pg) ==
    [pg EXCEPT !.replyParentId = Null, !.activeReplyDraftId = Null]

stopEditingMessage(pg) ==
    [pg EXCEPT !.editingMessageId = Null, !.editingMessageParentId = Null,
               !.isEditingDraft = FALSE]

handleReplyToggle(pg, messageId) ==
    LET at == positionsOf(pg.messages, messageId)
    IN  IF at = {} THEN pg
        ELSE IF ~canMessageReceiveReplies(pg.messages[CHOOSE k \in at : TRUE]) THEN pg
        ELSE IF pg.replyParentId = messageId THEN handleReplyCancel(pg)
        ELSE [pg EXCEPT !.replyParentId = messageId, !.activeReplyDraftId = Null]

startEditingMessage(pg, message) ==
    IF ~isMessageAuthor(pg, message) THEN pg
    ELSE [pg EXCEPT !.editingMessageId = message.id,
                    !.editingMessageParentId = message.parentMessage,
                    !.isEditingDraft = message.isDraft]

\* A handler that awaits the server is two operators: the request it sends
\* (NoRequest: it returns before sending) and what it does with the answer.
\* axios throws on every status but 2xx, and the catch blocks keep the state.
NoRequest == [op |-> "none"]
Succeeded(out) == out.status \in {200, 201}

\* the page shows one channel (useParams id)
pageChannel == CHOOSE c \in Channels : TRUE

\* what a click carries besides the editor's text: the message of the
\* button's row, and closeAfterSave
Context(target, close) == [target |-> target, close |-> close]
NoContext == Context(Null, FALSE)

fetchChannelRequest(pg) ==
    Request("list", pg.user, pageChannel, NoParent, FALSE, <<>>, "undef", "undef", "true")

fetchChannelDone(pg, out) ==
    IF Succeeded(out)
    THEN [NewPage(pg.user) EXCEPT !.loading = FALSE, !.messages = out.body]
    ELSE NewPage(pg.user)

handleSaveDraftRequest(pg, rootMessage) ==
    LET sanitizedContent == clientSanitizeRichText(rootMessage)
    IN  IF clientIsRichTextEmpty(sanitizedContent) THEN NoRequest
        ELSE IF pg.activeDraftId # Null
        THEN Request("patch", pg.user, NoParent, pg.activeDraftId, TRUE,
                     sanitizedContent, "undef", "true", "undef")
        ELSE Request("post", pg.user, pageChannel, NoParent, TRUE,
                     sanitizedContent, "undef", "true", "undef")

handleSaveDraftDone(pg, out) ==
    IF ~Succeeded(out) THEN pg
    ELSE LET savedMessage == out.body[1]
         IN  [pg EXCEPT !.messages = upsertMessage(@, savedMessage),
                        !.activeDraftId = savedMessage.id,
                        !.lastKnownDraftId = savedMessage.id]

\* fault injection: activeDraftId is not looked at
handleRootSubmitRequest_AlwaysPost(pg, rootMessage) ==
    LET sanitizedContent == clientSanitizeRichText(rootMessage)
    IN  IF clientIsRichTextEmpty(sanitizedContent) THEN NoRequest
        ELSE Request("post", pg.user, pageChannel, NoParent, TRUE,
                     sanitizedContent, "undef", "undef", "undef")

handleRootSubmitRequest(pg, rootMessage) ==
    LET sanitizedContent == clientSanitizeRichText(rootMessage)
    IN  IF clientIsRichTextEmpty(sanitizedContent) THEN NoRequest
        ELSE IF pg.activeDraftId # Null
        THEN Request("patch", pg.user, NoParent, pg.activeDraftId, TRUE,
                     sanitizedContent, "true", "undef", "undef")
        ELSE Request("post", pg.user, pageChannel, NoParent, TRUE,
                     sanitizedContent, "undef", "undef", "undef")

handleRootSubmitDone(pg, out) ==
    IF ~Succeeded(out) THEN pg
    ELSE stopEditingMessage(
             [pg EXCEPT !.messages = upsertMessage(@, out.body[1]),
                        !.activeDraftId = Null,
                        !.lastKnownDraftId = Null])

handleReplySubmitRequest(pg, replyMessage) ==
    LET sanitizedContent == clientSanitizeRichText(replyMessage)
    IN  IF pg.replyParentId = Null \/ clientIsRichTextEmpty(sanitizedContent)
        THEN NoRequest
        ELSE IF pg.activeReplyDraftId # Null
        THEN Request("patch", pg.user, NoParent, pg.activeReplyDraftId, TRUE,
                     sanitizedContent, "true", "undef", "undef")
        ELSE Request("post", pg.user, pageChannel, pg.replyParentId, TRUE,
                     sanitizedContent, "undef", "undef", "undef")

handleReplySubmitDone(pg, out) ==
    IF ~Succeeded(out) THEN pg
    ELSE handleReplyCancel(
             [pg EXCEPT !.messages = upsertMessage(@, out.body[1]),
                        !.activeReplyDraftId = Null])

\* fault injection: activeReplyDraftId is not looked at
handleReplySaveDraftRequest_AlwaysPost(pg, replyMessage) ==
    LET sanitizedContent == clientSanitizeRichText(replyMessage)
    IN  IF pg.replyParentId = Null \/ clientIsRichTextEmpty(sanitizedContent)
        THEN NoRequest
        ELSE Request("post", pg.user, pageChannel, pg.replyParentId, TRUE,
                     sanitizedContent, "undef", "true", "undef")

handleReplySaveDraftRequest(pg, replyMessage) ==
    LET sanitizedContent == clientSanitizeRichText(replyMessage)
    IN  IF pg.replyParentId = Null \/ clientIsRichTextEmpty(sanitizedContent)
        THEN NoRequest
        ELSE IF pg.activeReplyDraftId # Null
        THEN Request("patch", pg.user, NoParent, pg.activeReplyDraftId, TRUE,
                     sanitizedContent, "undef", "true", "undef")
        ELSE Request("post", pg.user, pageChannel, pg.replyParentId, TRUE,
                     sanitizedContent, "undef", "true", "undef")

handleReplySaveDraftDone(pg, out, closeAfterSave) ==
    IF ~Succeeded(out) THEN pg
    ELSE LET savedMessage == out.body[1]
             saved == [pg EXCEPT !.messages = upsertMessage(@, savedMessage),
                                 !.activeReplyDraftId = savedMessage.id]
         IN  IF closeAfterSave THEN handleReplyCancel(saved) ELSE saved

handleInlineMessageSaveRequest(pg, editingMessageContent) ==
    LET sanitizedContent == clientSanitizeRichText(editingMessageContent)
    IN  IF pg.editingMessageId = Null THEN NoRequest
        ELSE IF clientIsRichTextEmpty(sanitizedContent) THEN NoRequest
        ELSE Request("patch", pg.user, NoParent, pg.editingMessageId, TRUE,
                     sanitizedContent, "undef",
                     IF pg.isEditingDraft THEN "true" ELSE "undef", "undef")

handleInlineMessageSaveDone(pg, out) ==
    IF ~Succeeded(out) THEN pg
    ELSE LET saved == [pg EXCEPT !.messages = upsertMessage(@, out.body[1])]
         IN  IF ~pg.isEditingDraft THEN stopEditingMessage(saved)
             ELSE IF pg.editingMessageParentId = Null
             THEN [saved EXCEPT !.activeDraftId = out.body[1].id,
                                !.lastKnownDraftId = out.body[1].id]
             ELSE saved

\* handlePublishDraft(message), message a row of the local list
handlePublishDraftRequest(pg, messageId) ==
    Request("patch", pg.user, NoParent, messageId, FALSE, <<>>,
            "true", "undef", "undef")

handlePublishDraftDone(pg, out, messageId) ==
    IF ~Succeeded(out) THEN pg
    ELSE
      LET message == pg.messages[CHOOSE k \in positionsOf(pg.messages, messageId) : TRUE]
          upserted == [pg EXCEPT !.messages = upsertMessage(@, out.body[1])]
          rootCleared ==
              IF messageId = pg.activeDraftId
              THEN [upserted EXCEPT !.activeDraftId = Null, !.lastKnownDraftId = Null]
              ELSE upserted
          replyCleared ==
              IF messageId = pg.activeReplyDraftId
              THEN [rootCleared EXCEPT !.activeReplyDraftId = Null]
              ELSE rootCleared
          composerClosed ==
              IF message.parentMessage # NoParent
                 /\ pg.replyParentId = message.parentMessage
              THEN [replyCleared EXCEPT !.replyParentId = Null]
              ELSE replyCleared
      IN  IF pg.editingMessageId = messageId THEN stopEditingMessage(composerClosed)
          ELSE composerClosed

\* handleConfirmDelete with messagePendingDeletion = the row's message
handleConfirmDeleteRequest(pg, targetId) ==
    Request("delete", pg.user, NoParent, targetId, FALSE, <<>>,
            "undef", "undef", "undef")

\* fault injection: the deleted message leaves the list and nothing else of
\* the page is reset
handleConfirmDeleteDone_ListOnly(pg, out, targetId) ==
    IF ~Succeeded(out) THEN pg
    ELSE
      LET IsKept(message) == message.id # targetId
          kept == SelectSeq(pg.messages, IsKept)
      IN  [pg EXCEPT !.messages =
              [k \in DOMAIN kept |->
                  IF kept[k].parentMessage = targetId
                  THEN [kept[k] EXCEPT !.isOrphaned = TRUE]
                  ELSE kept[k]]]

handleConfirmDeleteDone(pg, out, targetId) ==
    IF ~Succeeded(out) THEN pg
    ELSE
      LET orphanedChildIds ==
              { pg.messages[k].id : k \in { j \in DOMAIN pg.messages :
                    pg.messages[j].parentMessage = targetId } }
          IsKept(message) == message.id # targetId
          kept == SelectSeq(pg.messages, IsKept)
          marked == [pg EXCEPT !.messages =
                        [k \in DOMAIN kept |->
                            IF kept[k].parentMessage = targetId
                            THEN [kept[k] EXCEPT !.isOrphaned = TRUE]
                            ELSE kept[k]]]
          rootCleared ==
              IF pg.activeDraftId = targetId
              THEN [marked EXCEPT !.activeDraftId = Null, !.lastKnownDraftId = Null]
              ELSE marked
          replyCleared ==
              IF pg.activeReplyDraftId = targetId
                 \/ pg.activeReplyDraftId \in orphanedChildIds
              THEN [rootCleared EXCEPT !.activeReplyDraftId = Null]
              ELSE rootCleared
          composerClosed ==
              IF pg.replyParentId = targetId \/ pg.replyParentId \in orphanedChildIds
              THEN handleReplyCancel(replyCleared)
              ELSE replyCleared
      IN  IF pg.editingMessageId = targetId THEN stopEditingMessage(composerClosed)
          ELSE composerClosed

\* the handlers that await the server
Handlers ==
    { "saveDraft", "rootSubmit", "replySubmit", "replySaveDraft",
      "inlineMessageSave", "publishDraft", "confirmDelete" }

\* the request handler h sends from page state pg, editor text x, click ctx
Begin(pg, h, x, ctx) ==
    CASE h = "saveDraft" -> handleSaveDraftRequest(pg, x)
      [] h = "rootSubmit" -> handleRootSubmitRequest(pg, x)
      [] h = "replySubmit" -> handleReplySubmitRequest(pg, x)
      [] h = "replySaveDraft" -> handleReplySaveDraftRequest(pg, x)
      [] h = "inlineMessageSave" -> handleInlineMessageSaveRequest(pg, x)
      [] h = "publishDraft" -> handlePublishDraftRequest(pg, ctx.target)
      [] h = "confirmDelete" -> handleConfirmDeleteRequest(pg, ctx.target)

\* the page after handler h got the answer out, effects included
Continue(pg, h, out, ctx) ==
    runEffects(
        CASE h = "saveDraft" -> handleSaveDraftDone(pg, out)
          [] h = "rootSubmit" -> handleRootSubmitDone(pg, out)
          [] h = "replySubmit" -> handleReplySubmitDone(pg, out)
          [] h = "replySaveDraft" -> handleReplySaveDraftDone(pg, out, ctx.close)
          [] h = "inlineMessageSave" -> handleInlineMessageSaveDone(pg, out)
          [] h = "publishDraft" -> handlePublishDraftDone(pg, out, ctx.target)
          [] h = "confirmDelete" -> handleConfirmDeleteDone(pg, out, ctx.target))

\* the rows that show the button of handler h, and the Save & close choice
Contexts(pg, h) ==
    CASE h = "publishDraft" ->
            { Context(pg.messages[k].id, FALSE) :
                k \in { j \in DOMAIN pg.messages : isOwnDraft(pg, pg.messages[j]) } }
      [] h = "confirmDelete" ->
            { Context(pg.messages[k].id, FALSE) :
                k \in { j \in DOMAIN pg.messages : isMessageAuthor(pg, pg.messages[j]) } }
      [] h = "replySaveDraft" -> { Context(Null, c) : c \in BOOLEAN }
      [] OTHER -> { NoContext }

\* ------------------------------------------------------------ the server
VARIABLES
    store,      \* the messages collection: id -> document
    nextId,     \* the next id Message.create hands out
    now,        \* the instant of the last store write
    pages,      \* the mounted Channel pages: page -> component state
    pending     \* the request a page has in flight

vars == <<store, nextId, now, pages, pending>>
serverVars == <<store, nextId, now>>
clientVars == <<pages, pending>>

\* The requests the model sends.  Every handler gets the product of the
\* inputs its decisions read, and one request for each early return that
\* looks at a single field (no token, a malformed id, a missing channel).
DraftInputs == {"undef", "true"}
PublishInputs == {"undef", "true"}
ValidInputs == { <<"a">>, <<"_", "b", "<img>">> }
EmptyInput == <<"<p>", "&nbsp;", "</p>">>
SomeChannel == CHOOSE c \in Channels : TRUE
OtherChannel == CHOOSE c \in Channels : c # SomeChannel
SomeUser == CHOOSE u \in Users : TRUE

PostRequests(op) ==
    { Request(op, u, c, p, TRUE, <<"a">>, "undef", d, "undef") :
        u \in Users, c \in {SomeChannel}, p \in MsgIds \cup {NoParent}, d \in DraftInputs }
    \cup
    { Request(op, SomeUser, OtherChannel, p, TRUE, <<"a">>, "undef", "undef", "undef") :
        p \in MsgIds \cup {NoParent} }
    \cup
    { Request(op, SomeUser, SomeChannel, NoParent, TRUE, x, "undef", d, "undef") :
        x \in {<<"_", "b", "<img>">>, EmptyInput, <<"_">>}, d \in DraftInputs }
    \cup
    { Request(op, NoUser, SomeChannel, NoParent, TRUE, <<"a">>, "undef", "undef", "undef"),
      Request(op, SomeUser, BadId, NoParent, TRUE, <<"a">>, "undef", "undef", "undef"),
      Request(op, SomeUser, GhostChannel, NoParent, TRUE, <<"a">>, "undef", "undef", "undef"),
      Request(op, SomeUser, SomeChannel, BadId, TRUE, <<"a">>, "undef", "undef", "undef"),
      Request(op, SomeUser, SomeChannel, NoParent, TRUE, <<"a">>, "undef", "false", "undef") }

\* PATCH: every body for the author of a stored message, and one request
\* for each of: another caller, a missing message, no token, a malformed id;
\* and the bodies without a usable field for every caller
PatchBodies ==
    { Request("patch", NoUser, NoParent, NoParent, TRUE, x, pub, d, "undef") :
        x \in ValidInputs, pub \in PublishInputs, d \in Opt }
    \cup
    { Request("patch", NoUser, NoParent, NoParent, FALSE, <<>>, pub, d, "undef") :
        pub \in PublishInputs, d \in Opt }
    \cup
    { Request("patch", NoUser, NoParent, NoParent, TRUE, EmptyInput, pub, "undef", "undef") :
        pub \in PublishInputs }
    \cup
    { Request("patch", NoUser, NoParent, NoParent, FALSE, <<>>, "false", d, "undef") :
        d \in {"undef", "false"} }

PatchRequests(st) ==
    { [b EXCEPT !.user = st[id].authorId, !.id = id] :
        b \in PatchBodies, id \in DOMAIN st }
    \cup
    { Request("patch", u, NoParent, id, TRUE, <<"_", "b", "<img>">>, pub, "undef", "undef") :
        u \in Users \cup {NoUser}, id \in MsgIds \cup {BadId}, pub \in PublishInputs }
    \cup
    { Request("patch", u, NoParent, id, hasContent, x, "undef", d, "undef") :
        u \in Users, id \in DOMAIN st,
        hasContent \in BOOLEAN, x \in {EmptyInput}, d \in {"undef", "true"} }

DeleteRequests ==
    { Request("delete", u, NoParent, id, FALSE, <<>>, "undef", "undef", "undef") :
        u \in Users \cup {NoUser}, id \in MsgIds \cup {BadId} }

GetRequests ==
    { Request("get", u, NoParent, id, FALSE, <<>>, "undef", "undef", "undef") :
        u \in Users \cup {NoUser}, id \in MsgIds \cup {BadId} }

ListRequests(op) ==
    { Request(op, u, c, NoParent, FALSE, <<>>, "undef", "undef", inc) :
        u \in Users \cup {NoUser}, c \in Channels \cup {NoParent},
        inc \in {"undef", "true"} }
    \cup
    { Request(op, SomeUser, c, NoParent, FALSE, <<>>, "undef", "undef", "undef") :
        c \in {GhostChannel, BadId} }
    \cup
    { Request(op, SomeUser, SomeChannel, NoParent, FALSE, <<>>, "undef", "undef", "false") }

PostMessageRequests == PostRequests("post")
PostChannelRequests == PostRequests("postChannel")
ListMessageRequests == ListRequests("list")
ListChannelRequests == ListRequests("listChannel")

CreateRequests == PostMessageRequests \cup PostChannelRequests
ReadRequests == ListMessageRequests \cup ListChannelRequests \cup GetRequests
WriteRequests == CreateRequests \cup PatchRequests(store) \cup DeleteRequests

\* a request is served: the store takes the handler's result, a write takes
\* the next instant and a created document the next id
Apply(out) ==
    /\ out.store # store => now < MaxTime
    /\ out.status = 201 => nextId <= MaxMsgs
    /\ store' = out.store
    /\ nextId' = IF out.status = 201 THEN nextId + 1 ELSE nextId
    /\ now' = IF out.store # store THEN now + 1 ELSE now

\* a request sent straight to the API, by no page
Serve(out) == Apply(out) /\ UNCHANGED clientVars

\* one page per signed-in user; a page sends one request at a time
Pages == {1, 2}
Idle == [stage |-> "idle"]

Init ==
    /\ store = <<>>
    /\ nextId = 1
    /\ now = 0
    /\ pages = [p \in Pages |-> NewPage(p)]
    /\ pending = [p \in Pages |-> Idle]

PostMessage ==
    \E r \in PostMessageRequests :
        Serve(postMessage(store, nextId, now + 1, r))

PostChannelMessage ==
    \E r \in PostChannelRequests :
        Serve(postChannelMessage(store, nextId, now + 1, r))

PatchMessage ==
    \E r \in PatchRequests(store) : Serve(patchMessage(store, now + 1, r))

DeleteMessage ==
    \E r \in DeleteRequests : Serve(deleteMessage(store, now + 1, r))

ListMessages ==
    \E r \in ListMessageRequests : Serve(listMessages(store, r))

GetMessage ==
    \E r \in GetRequests : Serve(getMessage(store, r))

ListChannelMessages ==
    \E r \in ListChannelRequests : Serve(listChannelMessages(store, r))

Next ==
    \/ PostMessage
    \/ PostChannelMessage
    \/ PatchMessage
    \/ DeleteMessage
    \/ ListMessages
    \/ GetMessage
    \/ ListChannelMessages

Spec == Init /\ [][Next]_vars

\* ------------------------------------------------ the pages, one at a time
\* An author works through one page, and every click runs to its end before
\* the next: the handler sends its request, the server answers, the handler
\* takes the answer and the effects run.
EditorInputs == { <<"a">>, <<"_", "b", "<img>">>, EmptyInput }

Outcome(r) == Handle(store, nextId, now + 1, r)

Perform(p, h, x, ctx) ==
    LET pg == pages[p]
        r == Begin(pg, h, x, ctx)
    IN  /\ ~pg.loading
        /\ IF r = NoRequest THEN UNCHANGED vars
           ELSE LET out == Outcome(r)
                IN  /\ Apply(out)
                    /\ pages' = [pages EXCEPT ![p] = Continue(pg, h, out, ctx)]
                    /\ UNCHANGED pending

\* the component mounts (the page is opened or reloaded): fetchChannel
Mount(p) ==
    LET out == Outcome(fetchChannelRequest(pages[p]))
    IN  /\ pages' = [pages EXCEPT ![p] = runEffects(fetchChannelDone(pages[p], out))]
        /\ UNCHANGED <<serverVars, pending>>

\* the Reply button is rendered on the root of a thread: the primary message
\* and the roots of the other threads, which are the messages without a parent
ReplyToggle(p) ==
    \E k \in DOMAIN pages[p].messages :
        /\ ~pages[p].loading
        /\ pages[p].messages[k].parentMessage = NoParent
        /\ pages' = [pages EXCEPT ![p] =
               runEffects(handleReplyToggle(pages[p], pages[p].messages[k].id))]
        /\ UNCHANGED <<serverVars, pending>>

StartEditing(p) ==
    \E k \in DOMAIN pages[p].messages :
        /\ ~pages[p].loading
        /\ pages' = [pages EXCEPT ![p] =
               startEditingMessage(pages[p], pages[p].messages[k])]
        /\ UNCHANGED <<serverVars, pending>>

SaveDraft(p) == \E x \in EditorInputs : Perform(p, "saveDraft", x, NoContext)

RootSubmit(p) == \E x \in EditorInputs : Perform(p, "rootSubmit", x, NoContext)

ReplySubmit(p) == \E x \in EditorInputs : Perform(p, "replySubmit", x, NoContext)

ReplySaveDraft(p) ==
    \E x \in EditorInputs, ctx \in Contexts(pages[p], "replySaveDraft") :
        Perform(p, "replySaveDraft", x, ctx)

InlineMessageSave(p) ==
    \E x \in EditorInputs : Perform(p, "inlineMessageSave", x, NoContext)

PublishDraft(p) ==
    \E ctx \in Contexts(pages[p], "publishDraft") :
        Perform(p, "publishDraft", <<>>, ctx)

ConfirmDelete(p) ==
    \E ctx \in Contexts(pages[p], "confirmDelete") :
        Perform(p, "confirmDelete", <<>>, ctx)

\* the author under study works through page 1
Author == 1

\* What the other users do reaches the server as requests, from a page of
\* theirs or not: they post roots and replies on both routes, and edit and
\* delete what is theirs.  Their drafts are shown to nobody else.
ElsewhereRequests ==
    LET others == Users \ {pages[Author].user}
        theirs == { i \in DOMAIN store : store[i].authorId \in others }
    IN  { Request(op, u, c, parent, TRUE, <<"a">>, "undef", "undef", "undef") :
            op \in {"post", "postChannel"}, u \in others, c \in {pageChannel},
            parent \in DOMAIN store \cup {NoParent} }
        \cup
        { Request("patch", store[i].authorId, NoParent, i, TRUE, <<"b">>,
                  "undef", "undef", "undef") : i \in theirs }
        \cup
        { Request("delete", store[i].authorId, NoParent, i, FALSE, <<>>,
                  "undef", "undef", "undef") : i \in theirs }

Elsewhere == \E r \in ElsewhereRequests : Serve(Outcome(r))

ClientNext ==
    \/ Mount(Author)
    \/ ReplyToggle(Author)
    \/ StartEditing(Author)
    \/ SaveDraft(Author)
    \/ RootSubmit(Author)
    \/ ReplySubmit(Author)
    \/ ReplySaveDraft(Author)
    \/ InlineMessageSave(Author)
    \/ PublishDraft(Author)
    \/ ConfirmDelete(Author)
    \/ Elsewhere

ClientSpec == Init /\ [][ClientNext]_vars

\* ------------------------------------------- the pages, requests in flight
\* The author has the channel open in two pages, each opened once.  A
\* handler sends its request, the server handles the requests in any order,
\* and the handler goes on when its answer is back.
ConcInit ==
    /\ store = <<>>
    /\ nextId = 1
    /\ now = 0
    /\ pages = [p \in Pages |-> NewPage(Author)]
    /\ pending = [p \in Pages |-> Idle]

TypedInputs == { <<"a">> }

Open(p) ==
    /\ pages[p].loading
    /\ Mount(p)

Toggle(p) ==
    /\ pending[p] = Idle
    /\ ReplyToggle(p)

Send(p) ==
    \E h \in Handlers, x \in TypedInputs :
        \E ctx \in Contexts(pages[p], h) :
            LET r == Begin(pages[p], h, x, ctx)
            IN  /\ pending[p] = Idle
                /\ ~pages[p].loading
                /\ r # NoRequest
                /\ pending' = [pending EXCEPT ![p] =
                       [stage |-> "sent", handler |-> h, request |-> r, ctx |-> ctx]]
                /\ UNCHANGED <<serverVars, pages>>

\* the server handles the request and the handler takes the answer; what
\* the handler does then touches its own page only, so that no step of the
\* other page can tell the answer's arrival from its handling
Deliver(p) ==
    /\ pending[p].stage = "sent"
    /\ LET out == Outcome(pending[p].request)
       IN  /\ Apply(out)
           /\ pages' = [pages EXCEPT ![p] =
                  Continue(@, pending[p].handler, out, pending[p].ctx)]
    /\ pending' = [pending EXCEPT ![p] = Idle]

ConcNext ==
    \E p \in Pages :
        \/ Open(p)
        \/ Toggle(p)
        \/ Send(p)
        \/ Deliver(p)

ConcSpec == ConcInit /\ [][ConcNext]_vars

\* ---------------------------------------------- at most one draft a scope
\* the drafts of author u in channel c under parent (NoParent: channel root)
DraftsIn(st, u, c, parent) ==
    { i \in DOMAIN st :
        /\ st[i].isDraft
        /\ st[i].authorId = u
        /\ st[i].channel = c
        /\ st[i].parentMessage = parent }

DraftSavers == {"saveDraft", "replySaveDraft"}
\* the scope a draft-saving handler of page pg writes to
SaveScope(pg, h) == IF h = "saveDraft" THEN NoParent ELSE pg.replyParentId

\* C1: with every author working through one page, one operation at a time,
\* the store never holds two drafts of one author in one (channel, parent)
\* scope; and a saveDraft in a scope where the author has a draft sends a
\* PATCH of that draft, which succeeds, stores the content of this call in
\* it, keeps it a draft and changes no other record.
C1_OneDraftPerScope ==
    /\ \A c \in Channels, parent \in MsgIds \cup {NoParent} :
        Cardinality(DraftsIn(store, pages[Author].user, c, parent)) <= 1
    /\ \A p \in {Author}, h \in DraftSavers, x \in EditorInputs :
        LET pg == pages[p]
            r == Begin(pg, h, x, NoContext)
            drafts == DraftsIn(store, pg.user, pageChannel, SaveScope(pg, h))
        IN  (~pg.loading /\ r # NoRequest /\ drafts # {}) =>
                LET out == Outcome(r)
                IN  /\ r.op = "patch" /\ r.id \in drafts
                    /\ out.status = 200
                    /\ DOMAIN out.store = DOMAIN store
                    /\ out.store[r.id].content = sanitizeRichText(x)
                    /\ out.store[r.id].isDraft
                    /\ \A i \in DOMAIN store \ {r.id} : out.store[i] = store[i]

\* the author's reply draft, under another user's message, was saved a
\* second time with other content and is the draft of the open composer
C1_Witness ==
    \E d \in DOMAIN store :
        /\ store[d].isDraft /\ store[d].authorId = pages[Author].user
        /\ store[d].parentMessage \in DOMAIN store
        /\ store[store[d].parentMessage].authorId # store[d].authorId
        /\ store[d].content = <<"b">> /\ store[d].updatedAt > store[d].createdAt
        /\ pages[Author].activeReplyDraftId = d

\* a page has the request of a draft-saving handler in flight
SavingDraft(p) ==
    /\ pending[p].stage = "sent"
    /\ pending[p].handler \in DraftSavers

\* what the store is after the server handled the request of p, then of q
AfterBoth(p, q) ==
    LET first == Handle(store, nextId, now + 1, pending[p].request)
        idAfter == IF first.status = 201 THEN nextId + 1 ELSE nextId
    IN  Handle(first.store, idAfter, now + 2, pending[q].request).store

\* C2: two saveDraft requests of one author for one scope are in flight,
\* both sent while the author had no draft in the scope: in whichever order
\* the server handles them, the scope holds at most one draft afterwards.
C2_ConcurrentSavesOneDraft ==
    \A p, q \in Pages :
        ( /\ p # q
          /\ SavingDraft(p) /\ SavingDraft(q)
          /\ pages[p].user = pages[q].user
          /\ pending[p].request.op = "post" /\ pending[q].request.op = "post"
          /\ pending[p].request.id = pending[q].request.id
          /\ DraftsIn(store, pages[p].user, pageChannel, pending[p].request.id) = {} )
        => Cardinality(DraftsIn(AfterBoth(p, q), pages[p].user, pageChannel,
                                pending[p].request.id)) <= 1

\* ---------------------------------------------- the server's properties
\* ---------------------------------------------- the server's properties
\* The properties speak about what a handler answers and stores for a
\* request in a reachable state.
\* the body asks for publication
AsksPublish(r) == r.publish = "true" \/ r.isDraft = "false"
\* r is a PATCH of the stored draft / published message r.id
OnDraft(r) == r.op = "patch" /\ Found(store, r.id) /\ store[r.id].isDraft
OnPublished(r) == r.op = "patch" /\ Found(store, r.id) /\ ~store[r.id].isDraft
\* the parent of the stored reply id was deleted, or is orphaned
ParentDeleted(id) ==
    store[id].parentMessage # NoParent /\ store[id].parentMessage \notin DOMAIN store
ParentOrphaned(id) ==
    /\ store[id].parentMessage \in DOMAIN store
    /\ store[store[id].parentMessage].isOrphaned

\* C3: a successful publish of a draft sets isDraft=false, sets createdAt to
\* the publication time, later than the draft's createdAt, and leaves the
\* version unchanged.
C3_PublishRefreshesCreatedAt ==
    \A r \in PatchRequests(store) :
        LET out == Outcome(r)
        IN  (OnDraft(r) /\ AsksPublish(r) /\ out.status = 200) =>
                LET before == store[r.id]
                    after == out.store[r.id]
                IN  /\ ~after.isDraft
                    /\ after.createdAt = now + 1
                    /\ after.createdAt > before.createdAt
                    /\ after.v = before.v

\* C4: every successful content edit of a published message raises its
\* version by exactly 1 and changes neither isDraft nor createdAt; no other
\* request changes the version of a published message, so after n edits the
\* version is the version at publication plus n.
C4_EditBumpsVersionByOne ==
    \A r \in WriteRequests :
        LET out == Outcome(r)
            after == out.store
        IN  \A id \in DOMAIN store \cap DOMAIN after :
                IF OnPublished(r) /\ r.id = id /\ r.hasContent /\ out.status = 200
                THEN /\ after[id].v = store[id].v + 1
                     /\ after[id].isDraft = store[id].isDraft
                     /\ after[id].createdAt = store[id].createdAt
                ELSE ~store[id].isDraft => after[id].v = store[id].v

\* a published message that was edited twice
C4_Witness ==
    \E id \in DOMAIN store :
        ~store[id].isDraft /\ store[id].v = 2 /\ store[id].content = <<"b">>

\* C5: a content update of a draft that does not publish changes only the
\* content (and the updatedAt stamp of the write): isDraft stays true, the
\* version and createdAt are kept, every other message is left alone.
C5_DraftUpdateKeepsDraft ==
    \A r \in PatchRequests(store) :
        LET out == Outcome(r)
        IN  (OnDraft(r) /\ r.hasContent /\ ~AsksPublish(r) /\ out.status = 200) =>
                LET before == store[r.id]
                    after == out.store[r.id]
                IN  /\ after.isDraft
                    /\ after.v = before.v
                    /\ after.createdAt = before.createdAt
                    /\ after.content = sanitizeRichText(r.content)
                    /\ out.store =
                           [store EXCEPT ![r.id] =
                               [before EXCEPT !.content = after.content,
                                              !.updatedAt = after.updatedAt]]

\* a draft, alone in the store, that was saved again twice
C5_Witness ==
    \E id \in DOMAIN store :
        /\ DOMAIN store = {id}
        /\ store[id].isDraft
        /\ store[id].v = 0
        /\ store[id].updatedAt >= store[id].createdAt + 2

\* C6: a successful delete of m removes exactly m and sets isOrphaned on
\* exactly the stored messages whose parentMessage is m; every other message
\* keeps its isOrphaned value, and every message keeps its parentMessage.
C6_DeleteOrphansDirectChildren ==
    \A r \in DeleteRequests :
        LET out == Outcome(r)
            after == out.store
        IN  out.status = 200 =>
                /\ r.id \in DOMAIN store
                /\ DOMAIN after = DOMAIN store \ {r.id}
                /\ \A i \in DOMAIN after :
                    /\ after[i].parentMessage = store[i].parentMessage
                    /\ after[i].isOrphaned =
                           (store[i].isOrphaned \/ store[i].parentMessage = r.id)

\* m was deleted: its child is orphaned, the child's own reply is not
C6_Witness ==
    \E c, g \in DOMAIN store :
        /\ ParentDeleted(c) /\ store[c].isOrphaned
        /\ store[g].parentMessage = c /\ ~store[g].isOrphaned

\* what a delete must leave alone in a message that stays
SameButOrphanMark(before, after) ==
    /\ after.content = before.content
    /\ after.authorId = before.authorId
    /\ after.createdAt = before.createdAt
    /\ after.isDraft = before.isDraft
    /\ after.v = before.v

\* C7, as claimed: a delete of m deletes no record but m, and every remaining
\* message keeps content, author, createdAt, updatedAt, isDraft and version.
C7_DeleteKeepsTimestamps ==
    \A r \in DeleteRequests :
        LET out == Outcome(r)
            after == out.store
        IN  out.status = 200 =>
                /\ DOMAIN after = DOMAIN store \ {r.id}
                /\ \A i \in DOMAIN after :
                    /\ SameButOrphanMark(store[i], after[i])
                    /\ after[i].updatedAt = store[i].updatedAt

\* C7, amended: a delete of m deletes no record but m; every remaining
\* message keeps content, author, createdAt, isDraft and version; updatedAt
\* is kept by every message that is no direct child of m, and a direct child
\* of m gets the instant of the delete as its updatedAt.
C7_DeleteKeepsAllButChildStamp ==
    \A r \in DeleteRequests :
        LET out == Outcome(r)
            after == out.store
        IN  out.status = 200 =>
                /\ DOMAIN after = DOMAIN store \ {r.id}
                /\ \A i \in DOMAIN after :
                    /\ SameButOrphanMark(store[i], after[i])
                    /\ after[i].updatedAt =
                           IF store[i].parentMessage = r.id THEN now + 1
                           ELSE store[i].updatedAt

\* a message was deleted last: its child carries the stamp of the delete,
\* a message that is no child of it is older
C7_Witness ==
    \E c, o \in DOMAIN store :
        /\ ParentDeleted(c) /\ store[c].isOrphaned
        /\ store[c].updatedAt = now /\ store[c].createdAt < now
        /\ store[o].parentMessage # store[c].parentMessage
        /\ store[o].updatedAt < now

\* C8: a publish of a draft reply that is orphaned, or whose parent is gone
\* or orphaned, is rejected and stores nothing (the draft stays a draft with
\* its createdAt and version); and no request at all turns a draft reply to a
\* deleted message into a published one.
C8_NoPublishUnderLostParent ==
    /\ \A r \in PatchRequests(store) :
        LET out == Outcome(r)
        IN  ( /\ OnDraft(r) /\ AsksPublish(r)
              /\ \/ store[r.id].isOrphaned
                 \/ ParentDeleted(r.id)
                 \/ ParentOrphaned(r.id) ) =>
                /\ out.store = store
                /\ out.status # 200
                /\ r.user = store[r.id].authorId => out.status = 400
    /\ \A id \in DOMAIN store :
        (store[id].isDraft /\ ParentDeleted(id)) =>
            \A r \in WriteRequests :
                LET after == Outcome(r).store
                IN  id \in DOMAIN after => after[id].isDraft

\* a draft reply whose parent is orphaned though the draft is not; the
\* author's publish of it is answered 400
C8_Witness ==
    \E d \in DOMAIN store :
        /\ store[d].isDraft
        /\ ParentOrphaned(d) /\ ~store[d].isOrphaned
        /\ patchMessage(store, now + 1,
               Request("patch", store[d].authorId, NoParent, d, FALSE, <<>>,
                       "true", "undef", "undef")).status = 400

\* C9: a message with isOrphaned=true gets no further reply: a create
\* request, on either route, that names it as parent is rejected and stores
\* nothing.
C9_NoReplyToOrphaned ==
    \A r \in CreateRequests :
        (r.id \in DOMAIN store /\ store[r.id].isOrphaned) =>
            LET out == Outcome(r)
            IN  out.status # 201 /\ out.store = store

\* C10: no read returns a draft to a caller who is not its author, and a
\* list returns every published message of the channel to every viewer.
C10_DraftsOnlyToAuthor ==
    \A r \in ReadRequests :
        LET out == Outcome(r)
            body == out.body
        IN  /\ \A k \in DOMAIN body :
                body[k].isDraft => body[k].authorId = r.user
            /\ (r.op # "get" /\ out.status = 200) =>
                \A i \in DOMAIN store :
                    (~store[i].isDraft /\ r.channel \in {store[i].channel, NoParent}) =>
                        \E k \in DOMAIN body : body[k] = store[i]

\* the request is a PATCH or DELETE of a stored message by a signed-in
\* caller who is not its author
ByAnother(r) ==
    /\ r.op \in {"patch", "delete"}
    /\ r.user \in Users
    /\ Found(store, r.id)
    /\ store[r.id].authorId # r.user

\* the body has a field to apply, and its content, if any, is not empty
WellFormed(r) ==
    \/ r.op = "delete"
    \/ /\ r.hasContent \/ r.publish # "undef" \/ r.isDraft # "undef"
       /\ r.hasContent => ~isRichTextEmpty(r.content)

C13_PublishedStaysPublished ==
    /\ \A r \in WriteRequests :
        LET after == Outcome(r).store
        IN  \A id \in DOMAIN store \cap DOMAIN after :
                ~store[id].isDraft => ~after[id].isDraft
    /\ \A r \in PatchRequests(store) :
        (OnPublished(r) /\ r.isDraft = "true") =>
            LET out == Outcome(r)
            IN  /\ out.status # 200 /\ out.store = store
                /\ (r.user = store[r.id].authorId /\ WellFormed(r)) => out.status = 400

\* a published message that was edited, while its author still has a draft
C13_Witness ==
    \E id, d \in DOMAIN store :
        /\ ~store[id].isDraft /\ store[id].v = 1
        /\ store[d].isDraft /\ store[d].authorId = store[id].authorId

\* C14, as claimed: a PATCH or DELETE of m by a caller who is not m's author
\* is answered with the permission error and stores nothing.
C14_OthersGetPermissionError ==
    \A r \in PatchRequests(store) \cup DeleteRequests :
        ByAnother(r) =>
            LET out == Outcome(r)
            IN  out.status = 403 /\ out.store = store

\* C14, amended: a PATCH or DELETE of m by a caller who is not m's author is
\* rejected and stores nothing; the answer is the permission error 403
\* whenever the body is well-formed, and the validation error 400 when the
\* body has no field or empty content, which is looked at first.
C14_OthersRejected ==
    \A r \in PatchRequests(store) \cup DeleteRequests :
        ByAnother(r) =>
            LET out == Outcome(r)
            IN  /\ out.store = store
                /\ out.status = IF WellFormed(r) THEN 403 ELSE 400

\* a message with a reply, both of one user: the other user's delete and
\* publish-with-content of the parent are answered 403
C14_Witness ==
    \E m, c \in DOMAIN store : \E u \in Users :
        /\ store[c].parentMessage = m /\ ~store[c].isOrphaned
        /\ u # store[m].authorId
        /\ deleteMessage(store, now + 1,
               Request("delete", u, NoParent, m, FALSE, <<>>,
                       "undef", "undef", "undef")).status = 403
        /\ patchMessage(store, now + 1,
               Request("patch", u, NoParent, m, TRUE, <<"b">>,
                       "true", "undef", "undef")).status = 403

\* C15: a DELETE of an id that is not in the store is answered 404 and
\* stores nothing; and after a DELETE that succeeded, the same DELETE is
\* answered 404 and stores nothing.
C15_DeleteOfMissingIsNotFound ==
    \A r \in DeleteRequests :
        LET out == Outcome(r)
        IN  /\ (r.user \in Users /\ r.id \in MsgIds /\ ~Found(store, r.id)) =>
                (out.status = 404 /\ out.store = store)
            /\ out.status = 200 =>
                LET again == deleteMessage(out.store, now + 2, r)
                IN  again.status = 404 /\ again.store = out.store

\* a message was deleted and its reply, now orphaned, is in the store
C15_Witness ==
    \E c \in DOMAIN store :
        /\ ParentDeleted(c) /\ store[c].isOrphaned
        /\ store[c].parentMessage < nextId

\* C16: in every reachable state no stored message has content that is
\* empty after sanitizing.
C16_NoEmptyContentStored ==
    \A i \in DOMAIN store : ~isRichTextEmpty(store[i].content)

\* C19: no request sets isOrphaned of a stored message back to false.
C19_OrphanedStaysOrphaned ==
    \A r \in WriteRequests :
        LET after == Outcome(r).store
        IN  \A id \in DOMAIN store \cap DOMAIN after :
                store[id].isOrphaned => after[id].isOrphaned

\* an orphaned draft reply that its author saved again after the delete,
\* and an orphaned published reply that was edited
C19_Witness ==
    \E id \in DOMAIN store :
        /\ store[id].isOrphaned /\ ParentDeleted(id)
        /\ store[id].content = <<"b">>
        /\ store[id].updatedAt = now

\* C20: no request changes id, channel, parentMessage or authorId of a
\* message that stays in the store.
C20_IdentityFieldsKept ==
    \A r \in WriteRequests :
        LET after == Outcome(r).store
        IN  \A id \in DOMAIN store \cap DOMAIN after :
                /\ after[id].id = store[id].id
                /\ after[id].channel = store[id].channel
                /\ after[id].parentMessage = store[id].parentMessage
                /\ after[id].authorId = store[id].authorId

\* a reply that was published from a draft, edited, and then orphaned by
\* the delete of its parent still names the deleted parent
C20_Witness ==
    \E id \in DOMAIN store :
        /\ ParentDeleted(id) /\ store[id].isOrphaned
        /\ ~store[id].isDraft /\ store[id].v = 1

\* ------------------------------------ buildThreadStructure (ChannelCard.tsx)
\* createdAt is counted in half seconds where the thread view is studied
OneSecond == 2
\* `placeholder-${parentId}`: an id that no stored message has
PlaceholderBase == 100
placeholderIdOf(parentId) == PlaceholderBase + parentId
\* primaryMessage: null
NoMessage == [id |-> Null]

isPlaceholder(message) ==
    "isPlaceholder" \in DOMAIN message /\ message.isPlaceholder

\* fault injection: the list is left in the order it arrived in
RECURSIVE sortByCreatedAt_Unsorted(_)
sortByCreatedAt_Unsorted(ms) ==
    IF ms = <<>> THEN <<>>
    ELSE <<Head(ms)>> \o sortByCreatedAt_Unsorted(Tail(ms))

\* [...ms].sort(sortByCreatedAt): Array.prototype.sort is stable
RECURSIVE sortByCreatedAt(_)
sortByCreatedAt(ms) ==
    IF ms = <<>> THEN <<>>
    ELSE LET k == CHOOSE i \in DOMAIN ms : \A j \in DOMAIN ms :
                      \/ ms[i].createdAt < ms[j].createdAt
                      \/ ms[i].createdAt = ms[j].createdAt /\ i <= j
             rest == [j \in 1..(Len(ms) - 1) |-> IF j < k THEN ms[j] ELSE ms[j + 1]]
         IN  <<ms[k]>> \o sortByCreatedAt(rest)

\* messageMap.has(id)
messageMapHas(sorted, id) == \E k \in DOMAIN sorted : sorted[k].id = id

\* childrenMap.get(key) ?? [] before the placeholders are keyed: the replies
\* to key in the order of sorted, sorted once more
childrenMapGet(sorted, key) ==
    LET RepliesTo(message) ==
            message.parentMessage # NoParent /\ message.parentMessage = key
    IN  sortByCreatedAt(SelectSeq(sorted, RepliesTo))

\* the keys of childrenMap, in the order the Map got them
RECURSIVE childrenMapKeys(_, _)
childrenMapKeys(sorted, seen) ==
    IF sorted = <<>> THEN <<>>
    ELSE LET parent == Head(sorted).parentMessage
         IN  IF parent = NoParent \/ parent \in seen
             THEN childrenMapKeys(Tail(sorted), seen)
             ELSE <<parent>> \o childrenMapKeys(Tail(sorted), seen \cup {parent})

\* the parent ids of childrenMap that messageMap does not have
missingParents(sorted) ==
    LET IsMissing(parentId) == ~messageMapHas(sorted, parentId)
    IN  SelectSeq(childrenMapKeys(sorted, {}), IsMissing)

\* fault injection: the placeholder takes the instant of its earliest child
placeholderTimestamp_OfChild(earliestChild) == earliestChild.createdAt

\* new Date(referenceDate - 1000)
placeholderTimestamp(earliestChild) == earliestChild.createdAt - OneSecond

placeholderMessage(parentId, children) ==
    [ id |-> placeholderIdOf(parentId),
      channel |-> children[1].channel,
      author |-> "Deleted message",
      content |-> <<"Message has been deleted">>,
      createdAt |-> placeholderTimestamp(children[1]),
      parentMessage |-> NoParent,
      isDraft |-> FALSE,
      isPlaceholder |-> TRUE,
      isOrphaned |-> TRUE,
      placeholderFor |-> parentId ]

placeholderRecords(sorted) ==
    LET missing == missingParents(sorted)
    IN  [k \in DOMAIN missing |->
            placeholderMessage(missing[k], childrenMapGet(sorted, missing[k]))]

\* childrenMap.get(root._id) ?? [] once the child lists of the missing
\* parents are keyed by the placeholder ids
childrenOfRoot(sorted, root) ==
    IF isPlaceholder(root)
    THEN childrenMapGet(sorted, root.placeholderFor)
    ELSE childrenMapGet(sorted, root.id)

ThreadGroup(sorted, root) ==
    [root |-> root, children |-> childrenOfRoot(sorted, root)]

buildThreadStructure(allMessages) ==
    IF allMessages = <<>>
    THEN [primaryMessage |-> NoMessage, primaryChildren |-> <<>>,
          otherThreads |-> <<>>]
    ELSE
      LET sorted == sortByCreatedAt(allMessages)
          placeholders == placeholderRecords(sorted)
          IsRoot(message) == message.parentMessage = NoParent
          augmentedRoots ==
              SelectSeq(sortByCreatedAt(sorted \o placeholders), IsRoot)
      IN  IF augmentedRoots = <<>>
          THEN [primaryMessage |-> NoMessage, primaryChildren |-> <<>>,
                otherThreads |-> [k \in DOMAIN placeholders |->
                                     ThreadGroup(sorted, placeholders[k])]]
          ELSE LET primaryMessage == Head(augmentedRoots)
                   otherRoots == Tail(augmentedRoots)
               IN  [primaryMessage |-> primaryMessage,
                    primaryChildren |-> childrenOfRoot(sorted, primaryMessage),
                    otherThreads |-> [k \in DOMAIN otherRoots |->
                                         ThreadGroup(sorted, otherRoots[k])]]

\* ------------------------------------------------- the thread view of a page
\* The page of the author shows the messages it was given: a message arrives
\* (a fetch, a save, a reply), a message of the list is deleted through the
\* page.  Ids are handed out in the order of creation, so that a reply has a
\* larger id than its parent; a parent that never arrived was deleted or is
\* a draft of somebody else.
MaxThreadIds == 4
MaxShown == 3
MaxStamp == 2
ThreadIds == 1..MaxThreadIds
Stamps == 0..MaxStamp

shownIds(ms) == { ms[k].id : k \in DOMAIN ms }

ThreadInit ==
    /\ store = <<>>
    /\ nextId = 1
    /\ now = 0
    /\ pages = [p \in Pages |-> [NewPage(Author) EXCEPT !.loading = FALSE]]
    /\ pending = [p \in Pages |-> Idle]

MessageArrives ==
    \E id \in ThreadIds, t \in Stamps, u \in {Author} :
      \E parent \in {NoParent} \cup { i \in ThreadIds : i < id } :
        LET ms == pages[Author].messages
            message == [NewMessage(id, t, pageChannel, parent, u, <<"a">>, FALSE)
                           EXCEPT !.isOrphaned =
                               parent # NoParent /\ parent \notin shownIds(ms)]
        IN  /\ Len(ms) < MaxShown
            /\ id \notin shownIds(ms)
            /\ \A k \in DOMAIN ms : ms[k].parentMessage # id
            /\ pages' = [pages EXCEPT ![Author].messages = upsertMessage(ms, message)]
            /\ UNCHANGED <<serverVars, pending>>

MessageDeleted ==
    \E k \in DOMAIN pages[Author].messages :
        LET target == pages[Author].messages[k]
        IN  /\ isMessageAuthor(pages[Author], target)
            /\ pages' = [pages EXCEPT ![Author] =
                   handleConfirmDeleteDone(@, Reply(200, store, <<>>), target.id)]
            /\ UNCHANGED <<serverVars, pending>>

ThreadNext == MessageArrives \/ MessageDeleted

ThreadSpec == ThreadInit /\ [][ThreadNext]_vars

\* the thread structure the page renders (useMemo on messages)
Shown == pages[Author].messages
Thread == buildThreadStructure(Shown)

\* the groups of the thread view: the primary thread, then the others
ThreadGroups ==
    IF Thread.primaryMessage = NoMessage THEN Thread.otherThreads
    ELSE <<[root |-> Thread.primaryMessage, children |-> Thread.primaryChildren]>>
             \o Thread.otherThreads

\* the messages of M without a parent, and the parent ids that messages of
\* M name and no message of M has
RootMessages == { Shown[k] : k \in { j \in DOMAIN Shown :
                                       Shown[j].parentMessage = NoParent } }
RepliesIn(p) == { Shown[k] : k \in { j \in DOMAIN Shown :
                                       Shown[j].parentMessage = p } }
LostParents == { p \in ThreadIds : RepliesIn(p) # {} /\ p \notin shownIds(Shown) }

\* C17, as stated: the thread view has a primary thread exactly when M holds
\* a root message, the primary root is the root message of M with the earliest
\* createdAt, every other root message of M is the root of one of the other
\* threads, and for the empty M there is no primary and no other thread.
C17_PrimaryIffRootMessage ==
    /\ Thread.primaryMessage # NoMessage <=> RootMessages # {}
    /\ Thread.primaryMessage # NoMessage =>
          /\ Thread.primaryMessage \in RootMessages
          /\ \A m \in RootMessages :
                 Thread.primaryMessage.createdAt <= m.createdAt
    /\ \A m \in RootMessages \ {Thread.primaryMessage} :
          \E k \in DOMAIN Thread.otherThreads : Thread.otherThreads[k].root = m
    /\ Shown = <<>> =>
          Thread.primaryMessage = NoMessage /\ Thread.otherThreads = <<>>

\* C17, amended: the roots of the view are the root messages of M and one
\* placeholder for each lost parent.  There is a primary thread exactly when
\* there is such a root, which is whenever M is not empty; the primary root
\* has the earliest createdAt of all of them, and a root message wins a tie
\* with a placeholder; every other root is the root of exactly one of the
\* other threads, which are in createdAt order; for the empty M there is no
\* primary and no other thread.
C17_PrimaryIsEarliestRoot ==
    LET others == Thread.otherThreads
        primary == Thread.primaryMessage
    IN  /\ primary # NoMessage <=> (RootMessages # {} \/ LostParents # {})
        /\ primary # NoMessage <=> Shown # <<>>
        /\ primary # NoMessage =>
              /\ \/ primary \in RootMessages
                 \/ isPlaceholder(primary) /\ primary.placeholderFor \in LostParents
              /\ \A m \in RootMessages : primary.createdAt <= m.createdAt
              /\ \A k \in DOMAIN others : primary.createdAt <= others[k].root.createdAt
              /\ isPlaceholder(primary) =>
                    \A m \in RootMessages : primary.createdAt < m.createdAt
        /\ \A m \in RootMessages :
              Cardinality({ k \in DOMAIN ThreadGroups : ThreadGroups[k].root = m }) = 1
        /\ Len(ThreadGroups) = Cardinality(RootMessages) + Cardinality(LostParents)
        /\ \A j, k \in DOMAIN others :
              j < k => others[j].root.createdAt <= others[k].root.createdAt
        /\ Shown = <<>> => primary = NoMessage /\ others = <<>>

\* two root messages that arrived latest first, and the later arrival leads
C17_Witness ==
    /\ Len(Shown) >= 2
    /\ Shown[1].parentMessage = NoParent /\ Shown[2].parentMessage = NoParent
    /\ Shown[2].createdAt < Shown[1].createdAt
    /\ Thread.primaryMessage = Shown[2]
    /\ \E k \in DOMAIN Thread.otherThreads : Thread.otherThreads[k].root = Shown[1]

\* C18: for each lost parent p the thread view has exactly one root that is a
\* placeholder for p; it is flagged isPlaceholder and isOrphaned, has no
\* parent, carries the instant one second before the earliest reply to p, and
\* its children are exactly the messages of M with parent p, in createdAt
\* order.  There is no placeholder for an id that a message of M has or
\* that no message of M names as its parent.
C18_PlaceholderPerLostParent ==
    \A p \in ThreadIds :
        LET hits == { k \in DOMAIN ThreadGroups :
                        /\ isPlaceholder(ThreadGroups[k].root)
                        /\ ThreadGroups[k].root.placeholderFor = p }
        IN  IF p \in LostParents
            THEN /\ Cardinality(hits) = 1
                 /\ \A k \in hits :
                      LET g == ThreadGroups[k]
                      IN  /\ g.root.isOrphaned
                          /\ g.root.parentMessage = NoParent
                          /\ \A c \in RepliesIn(p) :
                                 g.root.createdAt + OneSecond <= c.createdAt
                          /\ \E c \in RepliesIn(p) :
                                 g.root.createdAt + OneSecond = c.createdAt
                          /\ { g.children[j] : j \in DOMAIN g.children } = RepliesIn(p)
                          /\ Len(g.children) = Cardinality(RepliesIn(p))
                          /\ \A i, j \in DOMAIN g.children :
                                 i < j => g.children[i].createdAt <= g.children[j].createdAt
            ELSE hits = {}

\* two replies of different instants to a parent that is gone, next to a
\* root message: the placeholder holds both replies
C18_Witness ==
    \E p \in LostParents :
        /\ \E a, b \in RepliesIn(p) : a.createdAt < b.createdAt
        /\ RootMessages # {}
        /\ \E k \in DOMAIN ThreadGroups :
              /\ isPlaceholder(ThreadGroups[k].root)
              /\ ThreadGroups[k].root.placeholderFor = p
              /\ Len(ThreadGroups[k].children) = 2

\* ------------------------------------------- the routes, one await at a time
\* A handler of routes/messages.ts runs up to its next await in one step;
\* between two of its steps the server runs the steps of other requests.
\* Two callers of the author (two tabs, a double click) have a request each.
Callers == Pages

Answered(r, status, body) ==
    [stage |-> "answered", request |-> r, status |-> status, body |-> body]
Awaiting(stage, r, doc) == [stage |-> stage, request |-> r, doc |-> doc]

\* POST /messages down to Message.create: the checks of the request, of the
\* channel and of the parent
postMessageChecks(st, nid, t, r) ==
    LET out == postMessage(st, nid, t, r)
    IN  IF out.status = 201 THEN Awaiting("create", r, <<>>)
        ELSE Answered(r, out.status, <<>>)

\* Message.create of POST /messages
postMessageCreate(st, nid, t, r) ==
    LET m == NewMessage(nid, t, r.channel, r.id, r.user,
                        sanitizeRichText(r.content), r.isDraft = "true")
    IN  Reply(201, Insert(st, m), <<m>>)

\* PATCH /messages/:id from Message.findById to the next await: the lookup of
\* the parent of a draft reply that is to be published, or else save()
patchMessageLoad(st, r) ==
    IF r.user = NoUser THEN Answered(r, 401, <<>>)
    ELSE IF r.id = BadId THEN Answered(r, 400, <<>>)
    ELSE IF ~r.hasContent /\ r.publish = "undef" /\ r.isDraft = "undef"
         THEN Answered(r, 400, <<>>)
    ELSE IF r.hasContent /\ isRichTextEmpty(r.content) THEN Answered(r, 400, <<>>)
    ELSE IF ~Found(st, r.id) THEN Answered(r, 404, <<>>)
    ELSE IF ~isAuthor(st[r.id], r) THEN Answered(r, 403, <<>>)
    ELSE
      LET message == st[r.id]
      IN  IF revertsToDraft(message, r) THEN Answered(r, 400, <<>>)
          ELSE IF shouldPublish(message, r) /\ ~message.isDraft
               THEN Answered(r, 400, <<>>)
          ELSE IF shouldPublish(message, r) /\ message.isOrphaned
               THEN Answered(r, 400, <<>>)
          ELSE IF shouldPublish(message, r) /\ message.parentMessage # NoParent
               THEN Awaiting("parent", r, message)
          ELSE Awaiting("save", r, message)

\* PATCH after Message.findById(message.parentMessage)
patchMessageParent(st, call) ==
    IF parentUnavailable(st, call.doc)
    THEN Answered(call.request, 400, <<>>)
    ELSE Awaiting("save", call.request, call.doc)

\* message.save() of PATCH: the paths that were modified on the loaded
\* document are written to the stored document of that id, whatever was
\* written to it since the load; without a stored document of that id save
\* throws and the handler answers 500
documentSave(st, t, call) ==
    LET r == call.request
        message == call.doc
        saved == patchedDocument(message, t, r)
    IN  IF ~Found(st, r.id) THEN Reply(500, st, <<>>)
        ELSE
          LET stored == st[r.id]
              written ==
                  [stored EXCEPT
                     !.content = IF saved.content # message.content
                                 THEN saved.content ELSE @,
                     !.isDraft = IF saved.isDraft # message.isDraft
                                 THEN saved.isDraft ELSE @,
                     !.v = IF saved.v # message.v THEN saved.v ELSE @,
                     !.updatedAt = IF saved # message THEN saved.updatedAt ELSE @]
          IN  Reply(200, [st EXCEPT ![r.id] = written], <<saved>>)

\* DELETE /messages/:id from Message.findById to Message.deleteOne
deleteMessageLoad(st, r) ==
    IF r.user = NoUser THEN Answered(r, 401, <<>>)
    ELSE IF r.id = BadId THEN Answered(r, 400, <<>>)
    ELSE IF ~Found(st, r.id) THEN Answered(r, 404, <<>>)
    ELSE IF ~isAuthor(st[r.id], r) THEN Answered(r, 403, <<>>)
    ELSE Awaiting("deleteOne", r, st[r.id])

\* the requests of the author: a root or a reply, as a draft or published;
\* the publication, an edit or the deletion of a stored message
StepRequests ==
    { Request("post", Author, SomeChannel, NoParent, TRUE, <<"a">>, "undef", d, "undef") :
        d \in DraftInputs }
    \cup
    { Request("post", Author, SomeChannel, parent, TRUE, <<"a">>, "undef", "true", "undef") :
        parent \in DOMAIN store }
    \cup
    { Request("patch", Author, NoParent, id, FALSE, <<>>, "true", "undef", "undef") :
        id \in DOMAIN store }
    \cup
    { Request("patch", Author, NoParent, id, TRUE, <<"b">>, "undef", "undef", "undef") :
        id \in DOMAIN store }
    \cup
    { Request("delete", Author, NoParent, id, FALSE, <<>>, "undef", "undef", "undef") :
        id \in DOMAIN store }

Becomes(c, call) ==
    /\ pending' = [pending EXCEPT ![c] = call]
    /\ UNCHANGED <<serverVars, pages>>

\* the caller sends a request
Call(c) ==
    \E r \in StepRequests :
        /\ pending[c] = Idle
        /\ Becomes(c, Awaiting("sent", r, <<>>))

\* the handler starts and runs to its first write, or to its answer
Load(c) ==
    /\ pending[c].stage = "sent"
    /\ LET r == pending[c].request
       IN  Becomes(c, CASE r.op = "post" -> postMessageChecks(store, nextId, now + 1, r)
                        [] r.op = "patch" -> patchMessageLoad(store, r)
                        [] r.op = "delete" -> deleteMessageLoad(store, r))

LoadParent(c) ==
    /\ pending[c].stage = "parent"
    /\ Becomes(c, patchMessageParent(store, pending[c]))

\* a write of the handler reaches the store and the handler answers
Written(c, out) ==
    /\ Apply(out)
    /\ pending' = [pending EXCEPT ![c] =
           Answered(pending[c].request, out.status, out.body)]
    /\ UNCHANGED pages

Create(c) ==
    /\ pending[c].stage = "create"
    /\ Written(c, postMessageCreate(store, nextId, now + 1, pending[c].request))

Save(c) ==
    /\ pending[c].stage = "save"
    /\ Written(c, documentSave(store, now + 1, pending[c]))

DeleteOne(c) ==
    /\ pending[c].stage = "deleteOne"
    /\ Apply(Reply(200, deleteOne(store, pending[c].request.id), <<>>))
    /\ pending' = [pending EXCEPT ![c].stage = "updateMany"]
    /\ UNCHANGED pages

UpdateMany(c) ==
    /\ pending[c].stage = "updateMany"
    /\ Written(c, Reply(200, updateMany(store, pending[c].request.id, now + 1), <<>>))

\* the answer is with the caller
Return(c) ==
    /\ pending[c].stage = "answered"
    /\ Becomes(c, Idle)

StepNext ==
    \E c \in Callers :
        \/ Call(c)
        \/ Load(c)
        \/ LoadParent(c)
        \/ Create(c)
        \/ Save(c)
        \/ DeleteOne(c)
        \/ UpdateMany(c)
        \/ Return(c)

StepSpec == Init /\ [][StepNext]_vars

\* the call of c is a publish request that was answered with status
PublishAnswered(c, id, status) ==
    /\ pending[c].stage = "answered"
    /\ pending[c].request.op = "patch"
    /\ pending[c].request.publish = "true"
    /\ pending[c].request.id = id
    /\ pending[c].status = status

\* C11: of two publish requests for one draft that are in the server at the
\* same time, one is answered 200 and the other is refused: the two are
\* never both answered 200.
C11_OnePublishWins ==
    \A id \in MsgIds : \A c, d \in Callers :
        (c # d /\ PublishAnswered(c, id, 200)) => ~PublishAnswered(d, id, 200)

\* the call of c is an edit (new content and nothing else) of message id
\* that was answered 200
EditAnswered(c, id) ==
    /\ pending[c].stage = "answered"
    /\ pending[c].request.op = "patch"
    /\ pending[c].request.hasContent
    /\ pending[c].request.publish = "undef"
    /\ pending[c].request.id = id
    /\ pending[c].status = 200

\* C21: two edits of one published message that both started from version
\* n (each answers with version n + 1) and were both answered 200 leave the
\* stored message at version n + 2.
C21_NoLostIncrement ==
    \A id \in DOMAIN store : \A c, d \in Callers :
        ( /\ c # d
          /\ EditAnswered(c, id) /\ EditAnswered(d, id)
          /\ ~pending[c].body[1].isDraft /\ ~pending[d].body[1].isDraft
          /\ pending[c].body[1].v = pending[d].body[1].v ) =>
              store[id].v = pending[c].body[1].v + 1

\* no DELETE is between its deleteOne and its updateMany
NoDeleteUnderWay == \A c \in Callers : pending[c].stage # "updateMany"

\* C24: whenever no DELETE is half way, every stored message whose parent is
\* not in the store is marked isOrphaned, whatever the interleaving of the
\* creation or the publication of a reply with the deletion of its parent.
C24_LostParentMeansOrphaned ==
    NoDeleteUnderWay =>
        \A i \in DOMAIN store :
            (store[i].parentMessage # NoParent /\ ~Found(store, store[i].parentMessage))
                => store[i].isOrphaned

\* ------------------------------------------------ sending over a draft
Senders == {"rootSubmit", "replySubmit"}
\* the scope the composer of a sending handler of page pg writes to
SendScope(pg, h) == IF h = "rootSubmit" THEN NoParent ELSE pg.replyParentId

\* C22: when the author sends from a composer in whose scope they have a
\* draft, the handler sends a PATCH of that draft with publish=true; when it
\* succeeds the store has the same ids as before, the draft is published
\* under its id with the content sent, no other record changes, the author
\* has no draft left in the scope, and the page shows the message published.
C22_SendPublishesTheDraft ==
    \A h \in Senders, x \in EditorInputs :
        LET pg == pages[Author]
            r == Begin(pg, h, x, NoContext)
            scope == SendScope(pg, h)
            drafts == DraftsIn(store, pg.user, pageChannel, scope)
        IN  (~pg.loading /\ r # NoRequest /\ drafts # {}) =>
                LET out == Outcome(r)
                    after == Continue(pg, h, out, NoContext)
                IN  /\ r.op = "patch" /\ r.id \in drafts /\ r.publish = "true"
                    /\ Succeeded(out) =>
                          /\ DOMAIN out.store = DOMAIN store
                          /\ ~out.store[r.id].isDraft
                          /\ out.store[r.id].content = sanitizeRichText(x)
                          /\ \A i \in DOMAIN store \ {r.id} : out.store[i] = store[i]
                          /\ DraftsIn(out.store, pg.user, pageChannel, scope) = {}
                          /\ \E k \in DOMAIN after.messages :
                                /\ after.messages[k].id = r.id
                                /\ ~after.messages[k].isDraft

\* the author has a reply draft under the open composer's parent and a root
\* draft, and sending from either composer succeeds
C22_Witness ==
    \A h \in Senders :
        LET pg == pages[Author]
            r == Begin(pg, h, <<"_", "b", "<img>">>, NoContext)
        IN  /\ ~pg.loading
            /\ DraftsIn(store, pg.user, pageChannel, SendScope(pg, h)) # {}
            /\ r # NoRequest
            /\ Succeeded(Outcome(r))

\* ------------------------------------------------ the way of a rich text
\* A text is typed into a composer; the handler of the composer sanitizes
\* it and sends it (handleRootSubmit), and the route sanitizes what it got
\* and stores it (router.post).
MaxLen == 3
AmpersandTokens == {"&", "&amp;"}
Tokens ==
    TextTokens \cup SpaceTokens \cup EntityTokens \cup TagTokens \cup AmpersandTokens
RichTexts == UNION { [1..n -> Tokens] : n \in 0..MaxLen }

Typed(x) == [stage |-> "typed", content |-> x]

SanitizeInit ==
    /\ store = <<>>
    /\ nextId = 1
    /\ now = 0
    /\ pages = [p \in Pages |-> [NewPage(Author) EXCEPT !.loading = FALSE]]
    /\ \E x \in RichTexts :
          pending = [p \in Pages |-> IF p = Author THEN Typed(x) ELSE Idle]

ClientSanitizes ==
    /\ pending[Author].stage = "typed"
    /\ pending' = [pending EXCEPT ![Author] =
           [stage |-> "sanitized",
            content |-> clientSanitizeRichText(pending[Author].content)]]
    /\ UNCHANGED <<serverVars, pages>>

ServerSanitizes ==
    /\ pending[Author].stage \in {"typed", "sanitized"}
    /\ pending' = [pending EXCEPT ![Author] =
           [stage |-> "received",
            content |-> sanitizeRichText(pending[Author].content)]]
    /\ UNCHANGED <<serverVars, pages>>

SanitizeNext == ClientSanitizes \/ ServerSanitizes

SanitizeSpec == SanitizeInit /\ [][SanitizeNext]_vars

Appearances(m) ==
    Cardinality({ k \in DOMAIN ThreadGroups : ThreadGroups[k].root = m })
    + Cardinality({ <<k, j>> \in (DOMAIN ThreadGroups) \X (1..MaxShown) :
                      /\ j \in DOMAIN ThreadGroups[k].children
                      /\ ThreadGroups[k].children[j] = m })

\* C25: every message of M is in the thread view exactly once, as a root or
\* in one children list, a reply to a reply included.
C25_EveryMessageOnce ==
    \A k \in DOMAIN Shown : Appearances(Shown[k]) = 1

\* C26: a create request that names a stored draft as its parent is not
\* accepted, on either create route.
C26_NoReplyToDraft ==
    \A r \in CreateRequests :
        (Found(store, r.id) /\ store[r.id].isDraft) => Outcome(r).status # 201

\* the place of message id in the list sequence ms (0: not in it)
PlaceOf(ms, id) ==
    IF \E k \in DOMAIN ms : ms[k].id = id
    THEN CHOOSE k \in DOMAIN ms : ms[k].id = id
    ELSE 0

\* GET /channels/:id/messages without drafts, after the store became st
ChannelList(st, c) ==
    listChannelMessages(st,
        Request("listChannel", NoUser, c, NoParent, FALSE, <<>>,
                "undef", "undef", "undef")).body

\* C27: when a draft is published, the list of its channel has it after
\* every message of the channel that was published before.
C27_PublishedDraftListedLast ==
    \A r \in PatchRequests(store) :
        (OnDraft(r) /\ AsksPublish(r)) =>
            LET out == Outcome(r)
                list == ChannelList(out.store, store[r.id].channel)
            IN  out.status = 200 =>
                    \A j \in DOMAIN store :
                        (~store[j].isDraft /\ store[j].channel = store[r.id].channel)
                            => PlaceOf(list, j) < PlaceOf(list, r.id)

\* C28: every stored reply whose parent is in the store is in the channel
\* of its parent; and a create request whose parent id is malformed, names
\* no stored message or names a message of another channel is not accepted
\* and stores nothing.
C28_ReplyInChannelOfParent ==
    /\ \A i \in DOMAIN store :
          Found(store, store[i].parentMessage) =>
              store[i].channel = store[store[i].parentMessage].channel
    /\ \A r \in CreateRequests :
          ( /\ r.id # NoParent
            /\ \/ ~Found(store, r.id)
               \/ store[r.id].channel # r.channel ) =>
              LET out == Outcome(r)
              IN  out.status \in {400, 404} /\ out.store = store

\* a reply and its parent are stored, a second channel has a message, and
\* a reply in the second channel to the message of the first is refused
C28_Witness ==
    /\ \E i \in DOMAIN store : Found(store, store[i].parentMessage)
    /\ \E i \in DOMAIN store : store[i].channel = OtherChannel
    /\ \E r \in PostMessageRequests :
          /\ Found(store, r.id)
          /\ r.channel = OtherChannel
          /\ store[r.id].channel = SomeChannel
          /\ Outcome(r).status = 400

\* the ids of the messages a page shows
localIds(pg) == { pg.messages[k].id : k \in DOMAIN pg.messages }

ElsewhereBefore ==
    /\ pages[Author].loading
    /\ Elsewhere

SoloNext ==
    \/ Mount(Author)
    \/ ReplyToggle(Author)
    \/ StartEditing(Author)
    \/ SaveDraft(Author)
    \/ RootSubmit(Author)
    \/ ReplySubmit(Author)
    \/ ReplySaveDraft(Author)
    \/ InlineMessageSave(Author)
    \/ PublishDraft(Author)
    \/ ConfirmDelete(Author)
    \/ ElsewhereBefore

SoloSpec == Init /\ [][SoloNext]_vars

\* what a list of messages says of each id
ListView(ms) ==
    { [id |-> ms[k].id, content |-> ms[k].content, isDraft |-> ms[k].isDraft,
       isOrphaned |-> ms[k].isOrphaned] : k \in DOMAIN ms }

\* the list of the server for the user and channel of the page, drafts included
ServerList(st, pg) == Handle(st, nextId, now + 1, fetchChannelRequest(pg)).body

SameAsServer(ms, st, pg) ==
    /\ ListView(ms) = ListView(ServerList(st, pg))
    /\ Len(ms) = Len(ServerList(st, pg))

\* C30: with nobody else writing to the server once the page is open, after
\* every request of a handler of the page that the server answers with
\* success (a draft saved, a message sent, published, edited or deleted) the
\* list of the page has the ids of the list the server gives that user for
\* the channel with includeDrafts=true, each once, and for each id the same
\* content, isDraft and isOrphaned.
C30_LocalListIsServerList ==
    LET pg == pages[Author]
    IN  \A h \in Handlers, x \in EditorInputs :
            \A ctx \in Contexts(pg, h) :
                LET r == Begin(pg, h, x, ctx)
                    out == Outcome(r)
                    after == Continue(pg, h, out, ctx)
                IN  (~pg.loading /\ r # NoRequest /\ Succeeded(out)) =>
                        SameAsServer(after.messages, out.store, pg)

\* the author deletes a message of the page that holds a reply while the page
\* also lists a draft: afterwards page and server agree on a list in which
\* the reply is orphaned and the draft is still a draft
C30_Witness ==
    LET pg == pages[Author]
    IN  \E ctx \in Contexts(pg, "confirmDelete") :
            LET r == Begin(pg, "confirmDelete", <<>>, ctx)
                out == Outcome(r)
                after == Continue(pg, "confirmDelete", out, ctx)
            IN  /\ ~pg.loading
                /\ Succeeded(out)
                /\ \E k \in DOMAIN after.messages :
                      /\ after.messages[k].parentMessage = r.id
                      /\ after.messages[k].isOrphaned
                /\ \E k \in DOMAIN after.messages : after.messages[k].isDraft
                /\ SameAsServer(after.messages, out.store, pg)
====
